---- MODULE Spec2Model ----
(***************************************************************************)
(* A model of the three mrjob jobs of the sales pipeline:                  *)
(*   nettoyer_valider.py  DataCleaningJob   (validate + deduplicate)       *)
(*   analyse_ventes.py    SalesAnalysisJob  (country/month + return rate)  *)
(*   top_produits.py      TopProductsJob    (catalog join + top 10)        *)
(*                                                                         *)
(* Text is modelled character by character: a Python str is a sequence of  *)
(* one-character strings, so that strip, startswith, slicing, the csv      *)
(* reader and the number/date parsers are computed, not assumed.           *)
(* Decimal numbers are exact fixed-point integers in thousandths.          *)
(***************************************************************************)
EXTENDS Integers, Sequences, FiniteSets, TLC

(***************************************************************************)
(* Python str helpers                                                      *)
(***************************************************************************)

\* str.isspace() for the characters of the model's alphabet
IsSpace(c) == c \in {" ", "\t", "\n", "\r"}

Digits == <<"0", "1", "2", "3", "4", "5", "6", "7", "8", "9">>

IsDigit(c) == \E i \in 1..10 : Digits[i] = c

DigitVal(c) == (CHOOSE i \in 1..10 : Digits[i] = c) - 1

LowerAlpha == <<"a","b","c","d","e","f","g","h","i","j","k","l","m",
                "n","o","p","q","r","s","t","u","v","w","x","y","z">>

UpperAlpha == <<"A","B","C","D","E","F","G","H","I","J","K","L","M",
                "N","O","P","Q","R","S","T","U","V","W","X","Y","Z">>

\* s[:n]
Take(s, n) == IF Len(s) <= n THEN s ELSE SubSeq(s, 1, n)

\* s[n:]
Drop(s, n) == IF Len(s) <= n THEN <<>> ELSE SubSeq(s, n + 1, Len(s))

RECURSIVE LStrip(_)
LStrip(s) == IF s # <<>> /\ IsSpace(Head(s)) THEN LStrip(Tail(s)) ELSE s

RECURSIVE RStrip(_)
RStrip(s) == IF s # <<>> /\ IsSpace(s[Len(s)])
             THEN RStrip(SubSeq(s, 1, Len(s) - 1)) ELSE s

\* str.strip()
Strip(s) == RStrip(LStrip(s))

\* str.startswith(p)
StartsWith(s, p) == Len(s) >= Len(p) /\ SubSeq(s, 1, Len(p)) = p

UpperChar(c) == IF \E i \in 1..26 : LowerAlpha[i] = c
                THEN UpperAlpha[CHOOSE i \in 1..26 : LowerAlpha[i] = c] ELSE c

LowerChar(c) == IF \E i \in 1..26 : UpperAlpha[i] = c
                THEN LowerAlpha[CHOOSE i \in 1..26 : UpperAlpha[i] = c] ELSE c

\* str.upper()
Upper(s) == [i \in 1..Len(s) |-> UpperChar(s[i])]

\* str.lower()
Lower(s) == [i \in 1..Len(s) |-> LowerChar(s[i])]

\* str.replace(c, '')
RECURSIVE RemoveChar(_, _)
RemoveChar(s, c) == IF s = <<>> THEN <<>>
                    ELSE IF Head(s) = c THEN RemoveChar(Tail(s), c)
                    ELSE <<Head(s)>> \o RemoveChar(Tail(s), c)

\* s.strip('"') : strips the given character from both ends
RECURSIVE StripChar(_, _)
StripChar(s, c) == IF s # <<>> /\ Head(s) = c THEN StripChar(Tail(s), c)
                   ELSE IF s # <<>> /\ s[Len(s)] = c
                        THEN StripChar(SubSeq(s, 1, Len(s) - 1), c)
                   ELSE s

\* dict.get(f, default)
Get(d, f, default) == IF f \in DOMAIN d THEN d[f] ELSE default

Range(s) == {s[i] : i \in DOMAIN s}

(***************************************************************************)
(* csv.reader([line], quotechar='"', delimiter=',', escapechar='\\',       *)
(*            skipinitialspace=True)  -- CPython's _csv state machine      *)
(***************************************************************************)
EOL == "EOL"

CsvStart == [st |-> "START_RECORD", field |-> <<>>, fields |-> <<>>, err |-> FALSE]

SaveField(p, st) == [p EXCEPT !.fields = Append(@, p.field), !.field = <<>>, !.st = st]

AddChar(p, c, st) == [p EXCEPT !.field = Append(@, c), !.st = st]

IsNL(c) == c = "\n" \/ c = "\r"

AfterEnd(c) == IF c = EOL THEN "START_RECORD" ELSE "EAT_CRNL"

StartField(p, c) ==
    IF IsNL(c) \/ c = EOL THEN SaveField(p, AfterEnd(c))
    ELSE IF c = "\"" THEN [p EXCEPT !.st = "IN_QUOTED_FIELD"]
    ELSE IF c = "\\" THEN [p EXCEPT !.st = "ESCAPED_CHAR"]
    ELSE IF c = " " THEN [p EXCEPT !.st = "START_FIELD"]
    ELSE IF c = "," THEN SaveField(p, "START_FIELD")
    ELSE AddChar(p, c, "IN_FIELD")

InField(p, c) ==
    IF IsNL(c) \/ c = EOL THEN SaveField(p, AfterEnd(c))
    ELSE IF c = "\\" THEN [p EXCEPT !.st = "ESCAPED_CHAR"]
    ELSE IF c = "," THEN SaveField(p, "START_FIELD")
    ELSE AddChar(p, c, "IN_FIELD")

\* parse_process_char
CsvChar(p, c) ==
    IF p.err THEN p
    ELSE CASE p.st = "START_RECORD" ->
              IF c = EOL THEN p
              ELSE IF IsNL(c) THEN [p EXCEPT !.st = "EAT_CRNL"]
              ELSE StartField(p, c)
      [] p.st = "START_FIELD" -> StartField(p, c)
      [] p.st = "ESCAPED_CHAR" ->
              IF IsNL(c) THEN AddChar(p, c, "AFTER_ESCAPED_CRNL")
              ELSE AddChar(p, IF c = EOL THEN "\n" ELSE c, "IN_FIELD")
      [] p.st = "AFTER_ESCAPED_CRNL" -> IF c = EOL THEN p ELSE InField(p, c)
      [] p.st = "IN_FIELD" -> InField(p, c)
      [] p.st = "IN_QUOTED_FIELD" ->
              IF c = EOL THEN p
              ELSE IF c = "\\" THEN [p EXCEPT !.st = "ESCAPE_IN_QUOTED_FIELD"]
              ELSE IF c = "\"" THEN [p EXCEPT !.st = "QUOTE_IN_QUOTED_FIELD"]
              ELSE AddChar(p, c, "IN_QUOTED_FIELD")
      [] p.st = "ESCAPE_IN_QUOTED_FIELD" ->
              AddChar(p, IF c = EOL THEN "\n" ELSE c, "IN_QUOTED_FIELD")
      [] p.st = "QUOTE_IN_QUOTED_FIELD" ->
              IF c = "\"" THEN AddChar(p, c, "IN_QUOTED_FIELD")
              ELSE IF c = "," THEN SaveField(p, "START_FIELD")
              ELSE IF IsNL(c) \/ c = EOL THEN SaveField(p, AfterEnd(c))
              ELSE AddChar(p, c, "IN_FIELD")
      [] p.st = "EAT_CRNL" ->
              IF IsNL(c) THEN p
              ELSE IF c = EOL THEN [p EXCEPT !.st = "START_RECORD"]
              ELSE [p EXCEPT !.err = TRUE]

\* the characters s[lo..hi] fed in order; the range is split in halves, and
\* the state after the first half is computed before the second is entered
RECURSIVE CsvFeed(_, _, _, _)
CsvFeed(p, s, lo, hi) ==
    IF lo > hi THEN p
    ELSE IF lo = hi THEN CsvChar(p, s[lo])
    ELSE LET mid == (lo + hi) \div 2
             q == CsvFeed(p, s, lo, mid)
         IN  IF q.err THEN q ELSE CsvFeed(q, s, mid + 1, hi)

\* next(reader) on the one-line input: the line's characters, the end-of-line
\* step, and, when the record is still open, the end of input (which saves
\* the open field).  ok = FALSE stands for a raised exception.
CsvRow(line) ==
    LET p == CsvChar(CsvFeed(CsvStart, line, 1, Len(line)), EOL)
    IN  IF p.err THEN [ok |-> FALSE, row |-> <<>>]
        ELSE IF p.st = "START_RECORD" THEN [ok |-> TRUE, row |-> p.fields]
        ELSE IF p.field # <<>> \/ p.st = "IN_QUOTED_FIELD"
             THEN [ok |-> TRUE, row |-> Append(p.fields, p.field)]
        ELSE [ok |-> FALSE, row |-> <<>>]

(***************************************************************************)
(* Numbers.  A parsed float is [ok, kind, v]: kind "fin" with v its value  *)
(* in thousandths, or "nan", "inf", "-inf".  Covered literals:             *)
(* [sign] digits [. digits] | [sign] . digits | [sign] nan|inf|infinity;   *)
(* exponents and digit-group underscores do not occur in the inputs.       *)
(***************************************************************************)
Scale == 10 * 10 * 10

NoNum == [ok |-> FALSE, kind |-> "none", v |-> 0]

AllDigits(s) == \A i \in 1..Len(s) : IsDigit(s[i])

RECURSIVE DecVal(_)
DecVal(s) == IF s = <<>> THEN 0
             ELSE DecVal(SubSeq(s, 1, Len(s) - 1)) * 10 + DigitVal(s[Len(s)])

HasSign(s) == s # <<>> /\ Head(s) \in {"+", "-"}

Unsigned(s) == IF HasSign(s) THEN Tail(s) ELSE s

Sign(s) == IF s # <<>> /\ Head(s) = "-" THEN -1 ELSE 1

DotAt(s) == IF \E i \in 1..Len(s) : s[i] = "."
            THEN CHOOSE i \in 1..Len(s) : s[i] = "." /\ \A j \in 1..(i-1) : s[j] # "."
            ELSE 0

\* the fraction digits as thousandths
FracVal(f) == DecVal(Take(f \o <<"0", "0", "0">>, 3))

\* float(s) for the texts of the model: a signed decimal literal with at most
\* three decimals (no exponent, no underscore), nan, inf, or not a number
ParseFloat(s0) ==
    LET s == Strip(s0)
        u == Unsigned(s)
        w == Lower(u)
        d == DotAt(u)
        ip == IF d = 0 THEN u ELSE SubSeq(u, 1, d - 1)
        fp == IF d = 0 THEN <<>> ELSE SubSeq(u, d + 1, Len(u))
    IN  IF w = <<"n","a","n">> THEN [ok |-> TRUE, kind |-> "nan", v |-> 0]
        ELSE IF w = <<"i","n","f">> \/ w = <<"i","n","f","i","n","i","t","y">>
             THEN [ok |-> TRUE, kind |-> IF Sign(s) = -1 THEN "-inf" ELSE "inf", v |-> 0]
        ELSE IF AllDigits(ip) /\ AllDigits(fp) /\ Len(ip) + Len(fp) > 0
             THEN [ok |-> TRUE, kind |-> "fin",
                   v |-> Sign(s) * (DecVal(ip) * Scale + FracVal(fp))]
        ELSE NoNum

\* int(s)
ParseInt(s0) ==
    LET s == Strip(s0)
        u == Unsigned(s)
    IN  IF u # <<>> /\ AllDigits(u) THEN [ok |-> TRUE, v |-> Sign(s) * DecVal(u)]
        ELSE [ok |-> FALSE, v |-> 0]

\* x < y and x > y on floats (every comparison with nan is False)
FloatLt(x, n) == x.kind = "-inf" \/ (x.kind = "fin" /\ x.v < n * Scale)

FloatGt(x, n) == x.kind = "inf" \/ (x.kind = "fin" /\ x.v > n * Scale)

Abs(n) == IF n < 0 THEN -n ELSE n

(***************************************************************************)
(* Dates                                                                   *)
(***************************************************************************)
Num2(s, i) == DigitVal(s[i]) * 10 + DigitVal(s[i + 1])

Num4(s, i) == Num2(s, i) * 100 + Num2(s, i + 2)

IsLeap(y) == (y % 4 = 0 /\ y % 100 # 0) \/ y % 400 = 0

DaysInMonth(y, m) == IF m = 2 THEN (IF IsLeap(y) THEN 29 ELSE 28)
                     ELSE IF m \in {4, 6, 9, 11} THEN 30 ELSE 31

\* datetime(y, m, d) accepts the date
IsCalendarDate(y, m, d) == y >= 1 /\ m \in 1..12 /\ d >= 1 /\ d <= DaysInMonth(y, m)

DigitsAt(s, idx) == \A i \in idx : IsDigit(s[i])

\* the regular expression of _is_valid_date
DateRegex(s) ==
    /\ Len(s) \in {19, 20, 25}
    /\ DigitsAt(s, {1, 2, 3, 4, 6, 7, 9, 10, 12, 13, 15, 16, 18, 19})
    /\ s[5] = "-" /\ s[8] = "-"
    /\ s[11] \in {" ", "T"}
    /\ s[14] = ":" /\ s[17] = ":"
    /\ Len(s) = 20 => s[20] = "Z"
    /\ Len(s) = 25 => /\ s[20] \in {"+", "-"}
                      /\ DigitsAt(s, {21, 22, 24, 25}) /\ s[23] = ":"

\* DataCleaningJob._is_valid_date
IsValidDate(s) ==
    /\ DateRegex(s)
    /\ IsCalendarDate(Num4(s, 1), Num2(s, 6), Num2(s, 9))
    /\ Num2(s, 12) <= 23 /\ Num2(s, 15) <= 59 /\ Num2(s, 18) <= 59

(***************************************************************************)
(* DataCleaningJob (nettoyer_valider.py)                                   *)
(***************************************************************************)
VARIABLES
    schema_version,  \* the --schema-version option of the cleaning job
    product_catalog, \* per mapper task of the top-products job: its catalog
    source,          \* how each input line was written: its fields and style
    input,           \* the lines handed to the first mapper so far
    emitted,         \* per input line, the (key, value) pairs the mapper yielded
    output,          \* key -> what the first reducer yielded for that key
    formatted,       \* the pairs the second step's mapper has yielded, per key
    final,           \* key -> what the second step yielded for that key
    counters,        \* the job's counters
    pc               \* where the run stands: "map", "reduce", ..., "done"

vars == <<schema_version, product_catalog, source, input, emitted, output, formatted,
          final, counters, pc>>

S_transaction_id == <<"t","r","a","n","s","a","c","t","i","o","n","_","i","d">>

S_REJECT == <<"R","E","J","E","C","T">>

S_CLEAN == <<"C","L","E","A","N">>

schema_v1 == <<"transaction_id", "ts", "user_id", "country", "city",
               "product_id", "category", "subcategory", "unit_price", "qty",
               "discount_code", "payment_type", "device", "channel", "referrer",
               "is_return", "return_date", "status", "notes">>

schema_v2 == schema_v1 \o <<"coupon_value", "shipping_cost">>

expected_schema == IF schema_version = "v2" THEN schema_v2 ELSE schema_v1

expected_cols == Len(expected_schema)

LinePrefix == 100

MaxPrice == 1000000

MaxQty == 1000

Rejection(error, line) ==
    <<S_REJECT, [error |-> error, line |-> Take(line, LinePrefix)]>>

CsvErrorText ==
    "parse_error: new-line character seen in unquoted field - do you need to open the file in universal-newline mode?"

\* ValidateRow with the unit_price range tested before qty is converted
ValidateRowPriceFirst(line, row) ==
    LET transaction_id == Strip(row[1])
        ts == Strip(row[2])
        price == ParseFloat(Strip(row[9]))
        quantity == ParseInt(Strip(row[10]))
        record == [f \in Range(expected_schema) |->
                     Strip(row[CHOOSE i \in 1..expected_cols : expected_schema[i] = f])]
    IN  IF transaction_id = <<>>
        THEN [emit |-> <<Rejection("missing_transaction_id", line)>>,
              ctr |-> <<"missing_transaction_id">>]
        ELSE IF ~IsValidDate(ts)
        THEN [emit |-> <<Rejection("invalid_date", line)>>, ctr |-> <<"invalid_date">>]
        ELSE IF ~price.ok
        THEN [emit |-> <<Rejection("non_numeric_values", line)>>,
              ctr |-> <<"non_numeric_values">>]
        ELSE IF FloatLt(price, 0) \/ FloatGt(price, MaxPrice)
        THEN [emit |-> <<Rejection("invalid_price", line)>>, ctr |-> <<"invalid_price">>]
        ELSE IF ~quantity.ok
        THEN [emit |-> <<Rejection("non_numeric_values", line)>>,
              ctr |-> <<"non_numeric_values">>]
        ELSE IF Abs(quantity.v) > MaxQty
        THEN [emit |-> <<Rejection("invalid_quantity", line)>>,
              ctr |-> <<"invalid_quantity">>]
        ELSE [emit |-> <<<<transaction_id, [type |-> "VALID", data |-> record]>>>>,
              ctr |-> <<"valid_lines">>]

\* the body of the mapper once the row has its columns
ValidateRow(line, row) ==
    LET transaction_id == Strip(row[1])
        ts == Strip(row[2])
        price == ParseFloat(Strip(row[9]))
        quantity == ParseInt(Strip(row[10]))
        record == [f \in Range(expected_schema) |->
                     Strip(row[CHOOSE i \in 1..expected_cols : expected_schema[i] = f])]
    IN  IF transaction_id = <<>>
        THEN [emit |-> <<Rejection("missing_transaction_id", line)>>,
              ctr |-> <<"missing_transaction_id">>]
        ELSE IF ~IsValidDate(ts)
        THEN [emit |-> <<Rejection("invalid_date", line)>>, ctr |-> <<"invalid_date">>]
        ELSE IF ~price.ok \/ ~quantity.ok
        THEN [emit |-> <<Rejection("non_numeric_values", line)>>,
              ctr |-> <<"non_numeric_values">>]
        ELSE IF FloatLt(price, 0) \/ FloatGt(price, MaxPrice)
        THEN [emit |-> <<Rejection("invalid_price", line)>>, ctr |-> <<"invalid_price">>]
        ELSE IF Abs(quantity.v) > MaxQty
        THEN [emit |-> <<Rejection("invalid_quantity", line)>>,
              ctr |-> <<"invalid_quantity">>]
        ELSE [emit |-> <<<<transaction_id, [type |-> "VALID", data |-> record]>>>>,
              ctr |-> <<"valid_lines">>]

\* DataCleaningJob.mapper: what it yields and the counters it increments
mapper(line) ==
    LET s == Strip(line)
        r == CsvRow(line)
        res == IF line = <<>> \/ s = <<>>
               THEN [emit |-> <<>>, ctr |-> <<"empty_lines">>]
               ELSE IF StartsWith(s, <<"#">>)
               THEN [emit |-> <<>>, ctr |-> <<"comments_skipped">>]
               ELSE IF StartsWith(s, S_transaction_id)
               THEN [emit |-> <<>>, ctr |-> <<"headers_skipped">>]
               ELSE IF ~r.ok
               THEN [emit |-> <<<<S_REJECT, [error |-> CsvErrorText,
                                            line |-> Take(line, LinePrefix)]>>>>,
                     ctr |-> <<"parse_errors">>]
               ELSE IF Len(r.row) < expected_cols
               THEN [emit |-> <<Rejection("too_few_columns", line)>>,
                     ctr |-> <<"too_few_columns">>]
               ELSE ValidateRow(line, Take(r.row, expected_cols))
    IN  [emit |-> res.emit, ctr |-> <<"total_lines">> \o res.ctr]

\* DataCleaningJob.reducer: values is the list the engine delivers for key
reducer(key, values) ==
    IF key = S_REJECT
    THEN [emit |-> [i \in 1..Len(values) |-> <<S_REJECT, values[i]>>],
          ctr |-> [i \in 1..Len(values) |-> "rejected_lines"]]
    ELSE LET records == values
             first_record == records[1]
             dup == IF Len(records) > 1 THEN <<"duplicates_found">> ELSE <<>>
         IN  IF Get(first_record, "type", "None") = "VALID"
             THEN [emit |-> <<<<S_CLEAN, first_record.data>>>>,
                   ctr |-> dup \o <<"clean_records">>]
             ELSE [emit |-> <<>>, ctr |-> dup]

(***************************************************************************)
(* The grouping engine (mrjob / Hadoop streaming): a map phase, then one   *)
(* reducer call per key with that key's values in an unspecified order.    *)
(***************************************************************************)
CounterNames ==
    {"total_lines", "empty_lines", "comments_skipped", "headers_skipped",
     "too_few_columns", "missing_transaction_id", "invalid_date", "invalid_price",
     "invalid_quantity", "non_numeric_values", "valid_lines", "parse_errors",
     "rejected_lines", "duplicates_found", "clean_records",
     "sales_processed", "products_processed", "catalog_load_error",
     "products_loaded"}

RECURSIVE Bump(_, _)
Bump(c, names) == IF names = <<>> THEN c
                  ELSE Bump([c EXCEPT ![Head(names)] = @ + 1], Tail(names))

Keys(pairs) == {pairs[i][1] : i \in 1..Len(pairs)}

\* the values emitted under key k, in emission order
RECURSIVE ValuesOf(_, _)
ValuesOf(pairs, k) ==
    IF pairs = <<>> THEN <<>>
    ELSE (IF Head(pairs)[1] = k THEN <<Head(pairs)[2]>> ELSE <<>>)
         \o ValuesOf(Tail(pairs), k)

\* the orders in which the engine may deliver n values
Perms(n) == {f \in [1..n -> 1..n] : \A i, j \in 1..n : f[i] = f[j] => i = j}

Permute(vals, f) == [i \in 1..Len(vals) |-> vals[f[i]]]

\* all pairs of the map phase, in emission order
RECURSIVE Flatten(_)
Flatten(ss) == IF ss = <<>> THEN <<>> ELSE Head(ss) \o Flatten(Tail(ss))

ZeroCounters == [n \in CounterNames |-> 0]

NoOutput == [k \in {} |-> <<>>]

(***************************************************************************)
(* Input lines of the cleaning job.  A line is written from a list of      *)
(* field texts in one of a few styles; the mapper sees only the text.      *)
(***************************************************************************)
RECURSIVE Join(_, _)
Join(cols, sep) == IF cols = <<>> THEN <<>>
                   ELSE IF Len(cols) = 1 THEN cols[1]
                   ELSE cols[1] \o sep \o Join(Tail(cols), sep)

Quoted(cols) == [i \in 1..Len(cols) |-> <<"\"">> \o cols[i] \o <<"\"">>]

Render(d) ==
    CASE d.style = "plain"   -> Join(d.cols, <<",">>)
      [] d.style = "quoted"  -> Join(Quoted(d.cols), <<",">>)
      [] d.style = "spaced"  -> <<" ">> \o Join(d.cols, <<",", " ">>) \o <<" ">>
      [] d.style = "comment" -> <<"#", " ">> \o Join(d.cols, <<",">>)
      [] d.style = "cr"      -> Join(Take(d.cols, 2), <<",">>) \o <<"\r">>
                                \o Join(Drop(d.cols, 2), <<",">>)
      [] d.style = "blank"   -> <<" ", "\t">>
      [] d.style = "empty"   -> <<>>

TS_OK == <<"2","0","2","4","-","0","3","-","0","5"," ","1","0",":","0","0",":","0","0">>

TS_Z == <<"2","0","2","4","-","0","4","-","0","1","T","2","3",":","5","9",":","5","9","Z">>

TS_OFFSET == <<"2","0","2","4","-","0","2","-","2","9","T","0","0",":","0","0",":","0","0",
               "+","0","2",":","0","0">>

TS_NOT_LEAP == <<"2","0","2","3","-","0","2","-","2","9"," ","1","0",":","0","0",":","0","0">>

TS_HOUR24 == <<"2","0","2","4","-","0","3","-","0","5"," ","2","4",":","0","0",":","0","0">>

TS_DATE_ONLY == <<"2","0","2","4","-","0","3","-","0","5">>

T1 == <<"T", "1">>

T2 == <<"T", "2">>

Paris == <<"P","a","r","i","s">>

Lyon == <<"L","y","o","n">>

\* the 19 fields of a v1 line, then the two v2 fields and one field too many
Cols(tid, ts, city, price, qty, n) ==
    Take(<<tid, ts, <<"U","1">>, <<"F","R">>, city, <<"P","1">>, <<"C">>, <<"S">>,
           price, qty, <<>>, <<"C","A","R","D">>, <<"w">>, <<"s">>, <<>>, <<"0">>,
           <<>>, <<"O","K">>, <<>>, <<"5">>, <<"2",".","5">>, <<"x">>>>, n)

HeaderCols == <<S_transaction_id, <<"t","s">>>> \o [i \in 1..19 |-> <<"h">>]

P_OK == <<"1","9",".","9","9">>

Q_OK == <<"3">>

Row(tid, ts, city, n) == [cols |-> Cols(tid, ts, city, P_OK, Q_OK, n), style |-> "plain"]

\* the lines of the deduplication runs
CleanPool ==
    { Row(T1, TS_OK, Paris, 21), Row(T1, TS_Z, Lyon, 21), Row(T2, TS_OK, Paris, 21),
      Row(S_REJECT, TS_OK, Paris, 21), Row(T1, TS_NOT_LEAP, Paris, 21),
      Row(T2, TS_OK, Paris, 18),
      [cols |-> HeaderCols, style |-> "plain"],
      [cols |-> <<<<"n","o","t","e">>>>, style |-> "comment"] }

MaxLines == 3

(***************************************************************************)
(* The cleaning job as a state machine                                     *)
(***************************************************************************)
InitClean ==
    /\ schema_version \in {"v1", "v2"}
    /\ product_catalog = <<>>
    /\ source = <<>>
    /\ input = <<>>
    /\ emitted = <<>>
    /\ output = NoOutput
    /\ formatted = NoOutput
    /\ final = NoOutput
    /\ counters = ZeroCounters
    /\ pc = "map"

\* one call of DataCleaningJob.mapper
MapLine(d) ==
    LET line == Render(d)
        m == mapper(line)
    IN  /\ pc = "map"
        /\ source' = Append(source, d)
        /\ input' = Append(input, line)
        /\ emitted' = Append(emitted, m.emit)
        /\ counters' = Bump(counters, m.ctr)
        /\ UNCHANGED <<schema_version, product_catalog, output, formatted, final, pc>>

\* the end of the map phase: the engine groups the pairs by key
EndMap ==
    /\ pc = "map"
    /\ pc' = IF Keys(Flatten(emitted)) = {} THEN "done" ELSE "reduce"
    /\ UNCHANGED <<schema_version, product_catalog, source, input, emitted, output,
                   formatted, final, counters>>

\* one call of DataCleaningJob.reducer, its values delivered in the order f
ReduceKey(k, f) ==
    LET r == reducer(k, Permute(ValuesOf(Flatten(emitted), k), f))
    IN  /\ pc = "reduce"
        /\ k \notin DOMAIN output
        /\ output' = (k :> r.emit) @@ output
        /\ counters' = Bump(counters, r.ctr)
        /\ pc' = IF Keys(Flatten(emitted)) = DOMAIN output' THEN "done" ELSE "reduce"
        /\ UNCHANGED <<schema_version, product_catalog, source, input, emitted,
                       formatted, final>>

Reduce ==
    \E k \in Keys(Flatten(emitted)) :
        \E f \in Perms(Len(ValuesOf(Flatten(emitted), k))) : ReduceKey(k, f)

FeedClean == pc = "map" /\ Len(input) < MaxLines /\ \E d \in CleanPool : MapLine(d)

Next == FeedClean \/ EndMap \/ Reduce

Spec == InitClean /\ [][Next]_vars

(***************************************************************************)
(* Single-line runs of the cleaning job over a wide set of lines           *)
(***************************************************************************)
S_transaction_id_2 == S_transaction_id \o <<"_", "2">>

Tids == {T1, <<>>, <<" ">>, S_REJECT, S_transaction_id, S_transaction_id_2}

TidsEmpty == {<<>>, <<" ">>}

Tss == {TS_OK, TS_Z, TS_OFFSET, TS_NOT_LEAP, TS_HOUR24, TS_DATE_ONLY}

TssValid == {TS_OK, TS_Z, TS_OFFSET}

P_ZERO == <<"0">>

P_MAX == <<"1","0","0","0","0","0","0">>

P_OVER == <<"1","0","0","0","0","0","0",".","0","0","1">>

P_NEG == <<"-","0",".","0","1">>

P_TEXT == <<"a","b","c">>

P_NAN == <<"n","a","n">>

P_INF == <<"i","n","f">>

Prices == {P_OK, P_ZERO, P_MAX, P_OVER, P_NEG, P_TEXT, <<>>, P_NAN, P_INF}

PricesNonNumeric == {P_TEXT, <<>>}

PricesOutOfRange == {P_OVER, P_NEG, P_INF}

Q_MIN == <<"-","1","0","0","0">>

Q_OVER == <<"1","0","0","1">>

Q_UNDER == <<"-","1","0","0","1">>

Q_TEXT == <<"x">>

Q_DECIMAL == <<"3",".","0">>

Qtys == {Q_OK, Q_MIN, Q_OVER, Q_UNDER, Q_TEXT, Q_DECIMAL, <<>>}

QtysNonNumeric == {Q_TEXT, Q_DECIMAL, <<>>}

QtysOutOfRange == {Q_OVER, Q_UNDER}

DataStyles == {"plain", "quoted", "spaced"}

DataLines ==
    { [cols |-> Cols(tid, ts, Paris, price, qty, n), style |-> st] :
        tid \in Tids, ts \in Tss, price \in Prices, qty \in Qtys,
        n \in {18, 19, 21, 22}, st \in DataStyles }

OtherLines ==
    { [cols |-> c, style |-> st] :
        c \in {HeaderCols, Cols(T1, TS_OK, Paris, P_OK, Q_OK, 21), <<>>},
        st \in {"plain", "quoted", "spaced", "comment", "cr", "blank", "empty"} }

ParsePool == DataLines \cup OtherLines

FeedParse == pc = "map" /\ input = <<>> /\ \E d \in ParsePool : MapLine(d)

NextParse == FeedParse \/ EndMap \/ Reduce

SpecParse == InitClean /\ [][NextParse]_vars

(***************************************************************************)
(* Properties of the cleaning job                                          *)
(***************************************************************************)
MapPairs == Flatten(emitted)

IsValidMarker(v) == Get(v, "type", "None") = "VALID"

IsRejection(v) == DOMAIN v = {"error", "line"} /\ Len(v.line) <= LinePrefix

\* the ids carried by at least one valid line, and the records valid under an id
ValidIds == {MapPairs[i][1] : i \in {j \in 1..Len(MapPairs) : IsValidMarker(MapPairs[j][2])}}

ValidRecords(tid) ==
    {MapPairs[i][2].data :
        i \in {j \in 1..Len(MapPairs) :
                 IsValidMarker(MapPairs[j][2]) /\ MapPairs[j][1] = tid}}

NumValid(tid) ==
    Cardinality({j \in 1..Len(MapPairs) :
                   IsValidMarker(MapPairs[j][2]) /\ MapPairs[j][1] = tid})

\* the positions of the job's output pairs, and the pair at a position
OutAt == UNION {{<<k, i>> : i \in 1..Len(output[k])} : k \in DOMAIN output}

OutPair(x) == output[x[1]][x[2]]

CleanFor(tid) ==
    {x \in OutAt : /\ OutPair(x)[1] = S_CLEAN
                   /\ Get(OutPair(x)[2], "transaction_id", <<>>) = tid}

\* C1: once the job is done, every transaction_id carried by at least one
\* valid line has exactly one (CLEAN, record) output, and that record is one
\* of the valid records submitted under that id.
C1_OneCleanPerValidId ==
    pc = "done" =>
        \A tid \in ValidIds :
            /\ Cardinality(CleanFor(tid)) = 1
            /\ \A x \in CleanFor(tid) : OutPair(x)[2] \in ValidRecords(tid)

DuplicatesOf(tid) == NumValid(tid) - 1

RECURSIVE SumDuplicates(_)
SumDuplicates(S) ==
    IF S = {} THEN 0
    ELSE LET x == CHOOSE y \in S : TRUE IN DuplicatesOf(x) + SumDuplicates(S \ {x})

\* C7: once the job is done, the duplicates_found counter is the sum, over
\* the transaction ids with N >= 1 valid lines, of N - 1.  The ids are those
\* that reach the deduplication branch (every id but the REJECT sentinel).
C7_DuplicatesFoundIsNMinusOne ==
    pc = "done" =>
        counters["duplicates_found"] = SumDuplicates(ValidIds \ {S_REJECT})

RejectOutputs == {x \in OutAt : OutPair(x)[1] = S_REJECT}

MapRejections == {j \in 1..Len(MapPairs) : ~IsValidMarker(MapPairs[j][2])}

\* C10: once the job is done, the (REJECT, payload) outputs are exactly the
\* rejections of the map phase, each as many times as it was emitted, and
\* every REJECT payload is a Rejection: an error tag and a line prefix of at
\* most 100 characters, never a valid-record marker.
C10_RejectsAreTheMapRejections ==
    pc = "done" =>
        /\ \A x \in RejectOutputs : IsRejection(OutPair(x)[2])
        /\ \A v \in {OutPair(x)[2] : x \in RejectOutputs}
                  \cup {MapPairs[j][2] : j \in MapRejections} :
              Cardinality({x \in RejectOutputs : OutPair(x)[2] = v})
                = Cardinality({j \in MapRejections : MapPairs[j][2] = v})

(***************************************************************************)
(* Properties of the parser, over the single-line runs                     *)
(***************************************************************************)
IsDataLine(d) ==
    /\ d.style \in DataStyles /\ Len(d.cols) >= 18
    /\ d.cols[1] \in Tids /\ d.cols[2] \in Tss
    /\ d.cols[9] \in Prices /\ d.cols[10] \in Qtys

\* the line is not taken for a header by the mapper's prefix test
PastHeaderTest(d) == d.style = "quoted" \/ ~StartsWith(Strip(d.cols[1]), S_transaction_id)

Tid(d) == Strip(d.cols[1])

EnoughColumns(d) == Len(d.cols) >= expected_cols

\* the rejection tag, or "valid", that the rule order stated in the
\* specification gives a data line: each field's rule is finished (numeric,
\* then range) before the next field is looked at
TagPriceThenQty(d) ==
    IF ~EnoughColumns(d) THEN "too_few_columns"
    ELSE IF d.cols[1] \in TidsEmpty THEN "missing_transaction_id"
    ELSE IF d.cols[2] \notin TssValid THEN "invalid_date"
    ELSE IF d.cols[9] \in PricesNonNumeric THEN "non_numeric_values"
    ELSE IF d.cols[9] \in PricesOutOfRange THEN "invalid_price"
    ELSE IF d.cols[10] \in QtysNonNumeric THEN "non_numeric_values"
    ELSE IF d.cols[10] \in QtysOutOfRange THEN "invalid_quantity"
    ELSE "valid"

\* the same with both fields converted to numbers before either range is
\* tested
TagNumericThenRanges(d) ==
    IF ~EnoughColumns(d) THEN "too_few_columns"
    ELSE IF d.cols[1] \in TidsEmpty THEN "missing_transaction_id"
    ELSE IF d.cols[2] \notin TssValid THEN "invalid_date"
    ELSE IF d.cols[9] \in PricesNonNumeric \/ d.cols[10] \in QtysNonNumeric
         THEN "non_numeric_values"
    ELSE IF d.cols[9] \in PricesOutOfRange THEN "invalid_price"
    ELSE IF d.cols[10] \in QtysOutOfRange THEN "invalid_quantity"
    ELSE "valid"

\* what the mapper yielded for input line i, as a tag
TagOf(i) ==
    IF Len(emitted[i]) # 1 THEN "none"
    ELSE IF IsValidMarker(emitted[i][1][2]) THEN "valid"
    ELSE emitted[i][1][2].error

WellFormedEmission(i) ==
    LET e == emitted[i][1]
    IN  IF IsValidMarker(e[2])
        THEN /\ e[1] = Tid(source[i])
             /\ DOMAIN e[2].data = Range(expected_schema)
             /\ e[2].data["transaction_id"] = Tid(source[i])
             /\ e[2].data["ts"] = source[i].cols[2]
             /\ e[2].data["unit_price"] = source[i].cols[9]
             /\ e[2].data["qty"] = source[i].cols[10]
        ELSE e[1] = S_REJECT /\ e[2].line = Take(input[i], LinePrefix)

\* C8 (as stated): a line with enough columns, a non-empty transaction_id, a
\* valid timestamp and a numeric unit_price outside [0, 1000000] is rejected
\* as invalid_price whatever its qty field holds; in general the tag is the
\* one of the earliest failing rule in the order column count,
\* transaction_id, timestamp, unit_price, qty.
C8_PriceRuleBeforeQty ==
    \A i \in 1..Len(source) :
        (/\ IsDataLine(source[i]) /\ PastHeaderTest(source[i])
         /\ source[i].cols[9] \notin {P_NAN, P_INF})
            => TagOf(i) = TagPriceThenQty(source[i])

\* C8 (amended): the tag is the one of the earliest failing rule in the order
\* column count, transaction_id, timestamp, numeric conversion of unit_price
\* and qty together, unit_price range (below 0 or above 1000000; nan is
\* neither), qty range; a line that passes them all is emitted as valid under
\* its transaction_id with every schema field.
C8_NumericBeforeRanges ==
    \A i \in 1..Len(source) :
        (IsDataLine(source[i]) /\ PastHeaderTest(source[i]))
            => /\ TagOf(i) = TagNumericThenRanges(source[i])
               /\ WellFormedEmission(i)

\* a line whose unit_price is numeric and out of range and whose qty is not
\* a number has been mapped
C8_Witness ==
    \E i \in 1..Len(source) :
        /\ IsDataLine(source[i]) /\ PastHeaderTest(source[i])
        /\ EnoughColumns(source[i])
        /\ source[i].cols[1] \notin TidsEmpty /\ source[i].cols[2] \in TssValid
        /\ source[i].cols[9] \in PricesOutOfRange
        /\ source[i].cols[10] \in QtysNonNumeric
        /\ TagOf(i) = "non_numeric_values"

\* the line is neither empty (or blank) nor a comment
IsContentLine(line) == Strip(line) # <<>> /\ ~StartsWith(Strip(line), <<"#">>)

\* C9: a non-empty, non-comment line is dropped without any emission if and
\* only if its first field is the schema's first column name; every other
\* such line yields exactly one pair, a valid record under its
\* transaction_id or a (REJECT, rejection).  (Stated for the lines written
\* without quotes, where the first field is the text before the first comma.)
C9_HeaderIffFirstFieldIsColumnName ==
    \A i \in 1..Len(source) :
        (IsContentLine(input[i]) /\ source[i].style \in {"plain", "spaced"}) =>
            /\ emitted[i] = <<>> <=> Tid(source[i]) = S_transaction_id
            /\ emitted[i] # <<>> =>
                 /\ Len(emitted[i]) = 1
                 /\ \/ /\ IsValidMarker(emitted[i][1][2])
                       /\ emitted[i][1][1] = Tid(source[i])
                    \/ /\ emitted[i][1][1] = S_REJECT
                       /\ IsRejection(emitted[i][1][2])

(***************************************************************************)
(* SalesAnalysisJob (analyse_ventes.py)                                    *)
(*                                                                         *)
(* An input line is what the cleaning job wrote: the text before the first *)
(* tab (head), and the text after it, held as what json.loads makes of it  *)
(* (an object of text fields, or not JSON at all).  Quantities are         *)
(* integers, amounts are thousandths, rates are hundredths of a percent.   *)
(* Prices are finite decimals with at most three decimals.                 *)
(***************************************************************************)
S_RETURN_STATS == <<"R","E","T","U","R","N","_","S","T","A","T","S">>

S_RETURN_RATE == <<"R","E","T","U","R","N","_","R","A","T","E">>

S_UNKNOWN == <<"U","N","K","N","O","W","N">>

S_METRICS == <<"M","E","T","R","I","C","S">>

S_SALES == <<"S","A","L","E","S">>

\* SalesAnalysisJob._to_float, for the texts float() reads as a finite number
\* or rejects
ToFloat(x) == LET f == ParseFloat(RemoveChar(x, ","))
              IN  IF f.ok /\ f.kind = "fin" THEN f.v ELSE 0

\* SalesAnalysisJob._to_int
ToInt(x) == LET n == ParseInt(x) IN IF n.ok THEN n.v ELSE 0

\* SalesAnalysisJob._to_bool_int
ToBoolInt(x) ==
    IF Lower(Strip(x)) \in {<<"1">>, <<"t","r","u","e">>, <<"t">>, <<"y","e","s">>, <<"y">>}
    THEN 1 ELSE 0

\* where the month text ends in "YYYY-m-d": the position of the second dash
MonthEnd(s) == IF Len(s) >= 7 /\ s[7] = "-" THEN 7
               ELSE IF Len(s) >= 8 /\ s[8] = "-" THEN 8 ELSE 0

\* datetime.strptime(s, '%Y-%m-%d') : the date, or ok = FALSE when it raises
StrpDate(s) ==
    LET e == MonthEnd(s)
        mt == SubSeq(s, 6, e - 1)
        dt0 == SubSeq(s, e + 1, Len(s))
        dt == IF Len(dt0) = 2 /\ dt0[1] = " " THEN Tail(dt0) ELSE dt0
        y == DecVal(SubSeq(s, 1, 4))
        m == DecVal(mt)
        d == DecVal(dt)
    IN  IF /\ Len(s) >= 8 /\ DigitsAt(s, 1..4) /\ s[5] = "-"
           /\ e # 0
           /\ mt # <<>> /\ AllDigits(mt)
           /\ Len(dt) \in {1, 2} /\ AllDigits(dt)
           /\ m >= 1 /\ d >= 1
           /\ IsCalendarDate(y, m, d)
        THEN [ok |-> TRUE, y |-> y, m |-> m, d |-> d]
        ELSE [ok |-> FALSE, y |-> 0, m |-> 0, d |-> 0]

\* date.strftime('%Y-%m'), for the four-digit years
YearMonth(s, dt) == SubSeq(s, 1, 4) \o <<"-">> \o <<Digits[(dt.m \div 10) + 1], Digits[(dt.m % 10) + 1]>>

\* key_type = parts[0].strip('"'); key_type == 'CLEAN'
IsCleanLine(head) == StripChar(head, "\"") = S_CLEAN

\* the RETURN_STATS value with qty and amount left signed
ReturnStatsSigned(is_return, qty, amount) ==
    [is_return |-> is_return, qty |-> qty, amount |-> amount]

\* the value yielded under RETURN_STATS
ReturnStats(is_return, qty, amount) ==
    [is_return |-> is_return, qty |-> Abs(qty), amount |-> Abs(amount)]

\* SalesAnalysisJob.mapper_parse_sales
mapper_parse_sales(line) ==
    IF ~line.tab THEN [emit |-> <<>>, ctr |-> <<>>]
    ELSE IF ~IsCleanLine(line.head) THEN [emit |-> <<>>, ctr |-> <<>>]
    ELSE IF ~line.payload.ok THEN [emit |-> <<>>, ctr |-> <<"parse_errors">>]
    ELSE
      LET record == line.payload.record
          c == Strip(Upper(Get(record, "country", <<>>)))
          country == IF c = <<>> THEN S_UNKNOWN ELSE c
          ts == Get(record, "ts", <<>>)
          dt == StrpDate(Take(ts, 10))
          unit_price == ToFloat(Get(record, "unit_price", <<"0">>))
          qty == ToInt(Get(record, "qty", <<"0">>))
          is_return == ToBoolInt(Get(record, "is_return", <<"0">>))
          amount == unit_price * qty
      IN  IF ~dt.ok THEN [emit |-> <<>>, ctr |-> <<>>]
          ELSE [emit |-> << <<<<country, YearMonth(Take(ts, 10), dt)>>,
                               [amount |-> amount, transactions |-> 1, qty |-> qty]>>,
                             <<S_RETURN_STATS, ReturnStats(is_return, qty, amount)>> >>,
                ctr |-> <<"sales_processed">>]

\* sum of field f over a list of dicts
RECURSIVE SumField(_, _)
SumField(values, f) ==
    IF values = <<>> THEN 0 ELSE Get(Head(values), f, 0) + SumField(Tail(values), f)

\* the values with is_return == 1
RECURSIVE Returned(_)
Returned(values) ==
    IF values = <<>> THEN <<>>
    ELSE (IF Get(Head(values), "is_return", 0) = 1 THEN <<Head(values)>> ELSE <<>>)
         \o Returned(Tail(values))

\* n / d to the nearest integer, n >= 0, d > 0; a tie goes up or down as told
RoundDiv(n, d, up) ==
    LET q == n \div d
        r == n % d
    IN  IF 2 * r < d THEN q
        ELSE IF 2 * r > d THEN q + 1
        ELSE IF up THEN q + 1 ELSE q

\* round(x, 2) replaced by a truncation to the hundredth below
Round2Down(v, up) == 10 * (v \div 10)

\* round(x, 2) of an amount in thousandths, as thousandths.  Where the
\* amount lies exactly between two hundredths the result depends on the
\* binary value of the float, so either neighbour can come out.
Round2(v, up) == IF v >= 0 THEN 10 * RoundDiv(v, 10, up)
                 ELSE -(10 * RoundDiv(-v, 10, ~up))

\* round(part / total * 100, 2), in hundredths of a percent
Rate(part, total, up) == IF total > 0 THEN RoundDiv(part * 10000, total, up) ELSE 0

\* the round() calls of one reducer call
RoundSites(key) == IF key = S_RETURN_STATS
                   THEN {"rate_qty", "total_amount", "returned_amount", "rate_amount"}
                   ELSE {"net_sales"}

\* n / d lies exactly between two integers
IsTie(n, d) == d > 0 /\ 2 * (n % d) = d

\* the round() calls of a reducer call whose argument lies exactly between
\* two results
TieSites(key, values) ==
    LET total_qty == SumField(values, "qty")
        return_qty == SumField(Returned(values), "qty")
        total_amount == SumField(values, "amount")
        return_amount == SumField(Returned(values), "amount")
    IN  IF key = S_RETURN_STATS
        THEN {s \in RoundSites(key) :
                CASE s = "rate_qty" -> IsTie(return_qty * 10000, total_qty)
                  [] s = "total_amount" -> IsTie(total_amount, 10)
                  [] s = "returned_amount" -> IsTie(return_amount, 10)
                  [] s = "rate_amount" -> IsTie(return_amount * 10000, total_amount)}
        ELSE {s \in RoundSites(key) : IsTie(Abs(total_amount), 10)}

\* SalesAnalysisJob.reducer_aggregate_sales; up tells, per rounding, which
\* way an exact tie goes
reducer_aggregate_sales(key, values, up) ==
    IF key = S_RETURN_STATS
    THEN LET total_qty == SumField(values, "qty")
             return_qty == SumField(Returned(values), "qty")
             total_amount == SumField(values, "amount")
             return_amount == SumField(Returned(values), "amount")
         IN  << <<S_RETURN_RATE,
                  [total_quantity |-> total_qty,
                   returned_quantity |-> return_qty,
                   return_rate_by_qty |-> Rate(return_qty, total_qty, up["rate_qty"]),
                   total_amount |-> Round2(total_amount, up["total_amount"]),
                   returned_amount |-> Round2(return_amount, up["returned_amount"]),
                   return_rate_by_amount |->
                       Rate(return_amount, total_amount, up["rate_amount"])]>> >>
    ELSE LET country == key[1]
             year_month == key[2]
         IN  << <<key,
                  [country |-> country, month |-> year_month,
                   net_sales |-> Round2(SumField(values, "amount"), up["net_sales"]),
                   transactions |-> SumField(values, "transactions"),
                   quantity_sold |-> SumField(values, "qty")]>> >>

\* SalesAnalysisJob.mapper_format_output; the JSON text is held as its content
mapper_format_output(key, value) ==
    IF key = S_RETURN_RATE
    THEN <<S_METRICS, [metric_type |-> "return_rate", data |-> value]>>
    ELSE <<S_SALES, [metric_type |-> "sales_by_country_month",
                     country |-> key[1], month |-> key[2],
                     net_sales |-> value.net_sales,
                     transactions |-> value.transactions,
                     quantity_sold |-> value.quantity_sold]>>

\* SalesAnalysisJob.reducer_separate_outputs
reducer_separate_outputs(key, values) == [i \in 1..Len(values) |-> <<key, values[i]>>]

(***************************************************************************)
(* Input lines of the sales job, each with what it stands for: whether it  *)
(* is a CLEAN record with a usable date, and then its country/month key,   *)
(* signed amount (thousandths), signed qty and return flag.                *)
(***************************************************************************)
Q_CLEAN == <<"\"">> \o S_CLEAN \o <<"\"">>

Q_REJECT == <<"\"">> \o S_REJECT \o <<"\"">>

FR == <<"F","R">>

DE == <<"D","E">>

M03 == <<"2","0","2","4","-","0","3">>

M04 == <<"2","0","2","4","-","0","4">>

SalesRecord(country, ts, price, qty, is_return) ==
    [transaction_id |-> T1, ts |-> ts, country |-> country,
     product_id |-> <<"P","1">>, unit_price |-> price, qty |-> qty,
     is_return |-> is_return]

SalesLine(head, country, ts, price, qty, is_return) ==
    [head |-> head, tab |-> TRUE,
     payload |-> [ok |-> TRUE, record |-> SalesRecord(country, ts, price, qty, is_return)]]

Sale(line, country, month, amount, qty, ret) ==
    [line |-> line, counts |-> TRUE, key |-> <<country, month>>,
     amount |-> amount, qty |-> qty, ret |-> ret]

NoSale(line) ==
    [line |-> line, counts |-> FALSE, key |-> <<>>, amount |-> 0, qty |-> 0, ret |-> 0]

SalesPool ==
    { Sale(SalesLine(Q_CLEAN, <<" ","f","r"," ">>, TS_OK, <<"0",".","0","0","4">>,
                     <<"1">>, <<>>), FR, M03, 4, 1, 0),
      Sale(SalesLine(Q_CLEAN, FR, TS_OK, <<"0",".","0","0","1">>, <<"5">>, <<"n","o">>),
           FR, M03, 5, 5, 0),
      Sale(SalesLine(Q_CLEAN, FR, TS_Z, <<"9",".","9","9">>, <<"-","2">>, <<"1">>),
           FR, M04, -19980, -2, 1),
      Sale(SalesLine(Q_CLEAN, <<>>, TS_OK, <<"1",",","0","0","0">>, <<"0">>,
                     <<"T","r","u","e">>), S_UNKNOWN, M03, 0, 0, 1),
      Sale(SalesLine(S_CLEAN, DE, TS_DATE_ONLY, <<"0",".","5">>, <<"8","0">>, <<"0">>),
           DE, M03, 40000, 80, 0),
      Sale(SalesLine(S_CLEAN, DE, TS_OK, <<"0",".","5">>, <<"-","2","0">>, <<"y","e","s">>),
           DE, M03, -10000, -20, 1),
      NoSale(SalesLine(Q_REJECT, FR, TS_OK, P_OK, Q_OK, <<"0">>)),
      NoSale(SalesLine(Q_CLEAN, FR, TS_NOT_LEAP, P_OK, Q_OK, <<"0">>)),
      NoSale([head |-> Q_CLEAN, tab |-> TRUE, payload |-> [ok |-> FALSE]]) }

(***************************************************************************)
(* The sales job as a state machine: two steps, each a map phase and one   *)
(* reducer call per key.                                                   *)
(***************************************************************************)
InitSales ==
    /\ schema_version = "v1"
    /\ product_catalog = <<>>
    /\ source = <<>>
    /\ input = <<>>
    /\ emitted = <<>>
    /\ output = NoOutput
    /\ formatted = NoOutput
    /\ final = NoOutput
    /\ counters = ZeroCounters
    /\ pc = "map"

\* one call of mapper_parse_sales
MapSale(d) ==
    LET m == mapper_parse_sales(d.line)
    IN  /\ pc = "map"
        /\ source' = Append(source, d)
        /\ input' = Append(input, d.line)
        /\ emitted' = Append(emitted, m.emit)
        /\ counters' = Bump(counters, m.ctr)
        /\ UNCHANGED <<schema_version, product_catalog, output, formatted, final, pc>>

FeedSales == pc = "map" /\ Len(input) < MaxLines /\ \E d \in SalesPool : MapSale(d)

\* one call of reducer_aggregate_sales, its values delivered in the order f
ReduceSales(k, f, up) ==
    /\ pc = "reduce"
    /\ k \notin DOMAIN output
    /\ output' = (k :> reducer_aggregate_sales(
                          k, Permute(ValuesOf(Flatten(emitted), k), f), up)) @@ output
    /\ pc' = IF Keys(Flatten(emitted)) = DOMAIN output' THEN "format" ELSE "reduce"
    /\ UNCHANGED <<schema_version, product_catalog, source, input, emitted,
                   formatted, final, counters>>

\* any key not yet reduced, any delivery order, and for each rounding of a
\* value halfway between two results, either result
ReduceAllSales ==
    /\ pc = "reduce"
    /\ \E k \in Keys(Flatten(emitted)) :
         \E f \in Perms(Len(ValuesOf(Flatten(emitted), k))) :
           \E down \in SUBSET TieSites(k, ValuesOf(Flatten(emitted), k)) :
             ReduceSales(k, f, [s \in RoundSites(k) |-> s \notin down])

\* one call of mapper_format_output, on the row the first step left under k
FormatOutput(k) ==
    /\ pc = "format"
    /\ k \notin DOMAIN formatted
    /\ formatted' = (k :> [i \in 1..Len(output[k]) |->
                              mapper_format_output(output[k][i][1], output[k][i][2])])
                    @@ formatted
    /\ pc' = IF DOMAIN formatted' = DOMAIN output THEN "separate" ELSE "format"
    /\ UNCHANGED <<schema_version, product_catalog, source, input, emitted, output,
                   final, counters>>

Format == pc = "format" /\ \E k \in DOMAIN output : FormatOutput(k)

\* the pairs of the second map phase, in some emission order
RECURSIVE FormattedPairs(_)
FormattedPairs(ks) ==
    IF ks = {} THEN <<>>
    ELSE LET k == CHOOSE x \in ks : TRUE
         IN  formatted[k] \o FormattedPairs(ks \ {k})

\* one call of reducer_separate_outputs, its values delivered in the order f
SeparateOutputs(tag, f) ==
    LET pairs == FormattedPairs(DOMAIN formatted)
    IN  /\ pc = "separate"
        /\ tag \notin DOMAIN final
        /\ final' = (tag :> reducer_separate_outputs(tag, Permute(ValuesOf(pairs, tag), f)))
                    @@ final
        /\ pc' = IF Keys(pairs) = DOMAIN final' THEN "done" ELSE "separate"
        /\ UNCHANGED <<schema_version, product_catalog, source, input, emitted, output,
                       formatted, counters>>

Separate ==
    /\ pc = "separate"
    /\ \E tag \in Keys(FormattedPairs(DOMAIN formatted)) :
         \E f \in Perms(Len(ValuesOf(FormattedPairs(DOMAIN formatted), tag))) :
           SeparateOutputs(tag, f)

NextSales == FeedSales \/ EndMap \/ ReduceAllSales \/ Format \/ Separate

SpecSales == InitSales /\ [][NextSales]_vars

(***************************************************************************)
(* Properties of the sales job                                             *)
(***************************************************************************)
\* over the first n input lines that are CLEAN records of key K with a
\* usable date: their number ("n"), or the sum of their qty or amount
RECURSIVE SrcSum(_, _, _)
SrcSum(n, K, f) ==
    IF n = 0 THEN 0
    ELSE SrcSum(n - 1, K, f)
         + (IF source[n].counts /\ source[n].key = K
            THEN (CASE f = "n" -> 1
                    [] f = "qty" -> source[n].qty
                    [] f = "amount" -> source[n].amount)
            ELSE 0)

SalesKeys == {source[i].key : i \in {j \in 1..Len(source) : source[j].counts}}

Step1Done == pc \in {"format", "separate", "done"}

SalesRow(K) == output[K][1][2]

\* the part of the claim that does not concern net_sales
SalesRowsCountAndQty ==
    /\ \A K \in DOMAIN output \ {S_RETURN_STATS} :
         /\ K \in SalesKeys
         /\ Len(output[K]) = 1
         /\ output[K][1][1] = K
         /\ SalesRow(K).country = K[1] /\ SalesRow(K).month = K[2]
         /\ SalesRow(K).transactions = SrcSum(Len(source), K, "n")
         /\ SalesRow(K).quantity_sold = SrcSum(Len(source), K, "qty")
    /\ Step1Done => DOMAIN output \ {S_RETURN_STATS} = SalesKeys

\* C3 as stated: each (country, yearMonth) of the CLEAN records gets exactly
\* one row, whatever the delivery order; its transactions is the number of
\* those records, its quantity_sold the sum of their signed qty, and its
\* net_sales is the sum of their unit_price * qty; other lines add nothing.
C3_NetSalesIsTheSum ==
    /\ SalesRowsCountAndQty
    /\ \A K \in DOMAIN output \ {S_RETURN_STATS} :
         SalesRow(K).net_sales = SrcSum(Len(source), K, "amount")

\* C3, amended: as above, but net_sales is the sum rounded to two decimals
\* (to either neighbouring hundredth when the sum lies exactly between two).
C3_NetSalesIsTheRoundedSum ==
    /\ SalesRowsCountAndQty
    /\ \A K \in DOMAIN output \ {S_RETURN_STATS} :
         LET total == SrcSum(Len(source), K, "amount")
         IN  /\ SalesRow(K).net_sales % 10 = 0
             /\ 2 * Abs(SalesRow(K).net_sales - total) <= 10

\* a finished run where one key got two CLEAN records whose amounts sum to a
\* value with a fraction of a cent, next to lines that are not CLEAN records
C3_Witness ==
    /\ pc = "done"
    /\ \E K \in SalesKeys :
         /\ SrcSum(Len(source), K, "n") >= 2
         /\ SrcSum(Len(source), K, "amount") % 10 # 0
         /\ K \in DOMAIN output
    /\ \E i \in 1..Len(source) : ~source[i].counts

\* the ReturnRate rows of the run's output
MetricsRows ==
    IF S_METRICS \in DOMAIN final
    THEN {i \in 1..Len(final[S_METRICS]) :
            final[S_METRICS][i][2].metric_type = "return_rate"}
    ELSE {}

\* C4 as stated: every run emits exactly one ReturnRate row, never zero and
\* never more than one, whatever the input lines.
C4_ExactlyOneReturnRateRow ==
    pc = "done" => Cardinality(MetricsRows) = 1

\* what holds of the ReturnRate rows: never more than one, and one at the
\* end of a run if some input line is a CLEAN record with a usable date
AtMostOneReturnRateRow ==
    /\ Cardinality(MetricsRows) <= 1
    /\ pc = "done" => Cardinality(MetricsRows) = (IF SalesKeys = {} THEN 0 ELSE 1)

\* over the CLEAN records with a usable date among the first n lines: the sum
\* of abs(qty) or abs(amount), of all of them or of the returns only
RECURSIVE AbsSum(_, _, _)
AbsSum(n, f, returnsOnly) ==
    IF n = 0 THEN 0
    ELSE AbsSum(n - 1, f, returnsOnly)
         + (IF source[n].counts /\ (returnsOnly => source[n].ret = 1)
            THEN Abs(IF f = "qty" THEN source[n].qty ELSE source[n].amount)
            ELSE 0)

ReturnRateRow == output[S_RETURN_STATS][1][2]

TotalQty == AbsSum(Len(source), "qty", FALSE)

ReturnedQty == AbsSum(Len(source), "qty", TRUE)

TotalAmount == AbsSum(Len(source), "amount", FALSE)

ReturnedAmount == AbsSum(Len(source), "amount", TRUE)

ReturnTotalsOK ==
    /\ Len(output[S_RETURN_STATS]) = 1
    /\ output[S_RETURN_STATS][1][1] = S_RETURN_RATE
    /\ ReturnRateRow.total_quantity = TotalQty
    /\ ReturnRateRow.returned_quantity = ReturnedQty
    /\ TotalQty = 0 => ReturnRateRow.return_rate_by_qty = 0
    /\ TotalAmount = 0 => ReturnRateRow.return_rate_by_amount = 0

\* C5 as stated: total_quantity and returned_quantity are the sums of
\* abs(qty) over all values and over the returns; return_rate_by_qty is
\* returned_quantity / total_quantity * 100, and 0.0 when total_quantity is
\* 0; the amount-based rate follows the same rule.
C5_RateIsTheQuotient ==
    S_RETURN_STATS \in DOMAIN output =>
        /\ ReturnTotalsOK
        /\ TotalQty > 0 =>
             ReturnRateRow.return_rate_by_qty * TotalQty = ReturnedQty * 10000
        /\ TotalAmount > 0 =>
             ReturnRateRow.return_rate_by_amount * TotalAmount = ReturnedAmount * 10000

\* C5, amended: as above, but each rate is the quotient rounded to two
\* decimals, that is within half a hundredth of a percent of it.
C5_RateIsTheRoundedQuotient ==
    S_RETURN_STATS \in DOMAIN output =>
        /\ ReturnTotalsOK
        /\ TotalQty > 0 =>
             2 * Abs(ReturnRateRow.return_rate_by_qty * TotalQty - ReturnedQty * 10000)
                <= TotalQty
        /\ TotalAmount > 0 =>
             2 * Abs(ReturnRateRow.return_rate_by_amount * TotalAmount
                     - ReturnedAmount * 10000) <= TotalAmount

\* the reduction of a total quantity of 100 with 20 returned gave 20.0
C5_Witness ==
    /\ S_RETURN_STATS \in DOMAIN output
    /\ TotalQty = 100 /\ ReturnedQty = 20
    /\ ReturnRateRow.return_rate_by_qty = 2000
    /\ \E i \in 1..Len(source) : source[i].counts /\ source[i].qty < 0

(***************************************************************************)
(* TopProductsJob (top_produits.py)                                        *)
(*                                                                         *)
(* The catalog file is held as the rows csv.reader makes of it.  A mapper  *)
(* task loads it in mapper_init; the load may raise after any number of    *)
(* rows, which leaves the task with the entries read so far.               *)
(***************************************************************************)
S_TOP == <<"T","O","P">>

S_Unknown == <<"U","n","k","n","o","w","n">>

S_RANK == <<"R","A","N","K","_">>

\* f'Unknown Product {product_id}'
UnknownProduct(product_id) ==
    <<"U","n","k","n","o","w","n"," ","P","r","o","d","u","c","t"," ">> \o product_id

\* x or default, for texts
OrElse(x, default) == IF x = <<>> THEN default ELSE x

\* row[i] stripped if the row has it, else ''
Field(row, i) == IF Len(row) >= i THEN Strip(row[i]) ELSE <<>>

\* the body of the loop of mapper_init
LoadRow(catalog, row) ==
    IF row = <<>> \/ StartsWith(row[1], <<"#">>) THEN catalog
    ELSE LET product_id == Field(row, 1)
         IN  IF product_id # <<>>
             THEN (product_id :> [name |-> OrElse(Field(row, 2), UnknownProduct(product_id)),
                                  category |-> OrElse(Field(row, 3), S_Unknown),
                                  subcategory |-> OrElse(Field(row, 4), S_Unknown)])
                  @@ catalog
             ELSE catalog

\* the catalog after rows i..n of the file went through the loop
RECURSIVE LoadRows(_, _, _, _)
LoadRows(catalog, rows, i, n) ==
    IF i > n THEN catalog ELSE LoadRows(LoadRow(catalog, rows[i]), rows, i + 1, n)

NoCatalog == [p \in {} |-> <<>>]

\* TopProductsJob.mapper_init, where the reader delivered `read` rows of the
\* file: all of them, or fewer when reading raised
mapper_init(rows, read) ==
    LET catalog == LoadRows(NoCatalog, rows, 2, read)
    IN  IF read < Len(rows)
        THEN [catalog |-> catalog, failed |-> TRUE, loaded |-> 0]
        ELSE [catalog |-> catalog, failed |-> FALSE,
              loaded |-> Cardinality(DOMAIN catalog)]

\* the join turned into an inner join: a product missing from the catalog
\* yields nothing
mapper_aggregate_inner_join(catalog, line) ==
    IF ~line.tab THEN [emit |-> <<>>, ctr |-> <<>>]
    ELSE IF ~IsCleanLine(line.head) THEN [emit |-> <<>>, ctr |-> <<>>]
    ELSE IF ~line.payload.ok THEN [emit |-> <<>>, ctr |-> <<"parse_errors">>]
    ELSE
      LET record == line.payload.record
          product_id == Strip(Get(record, "product_id", <<>>))
          unit_price == ToFloat(Get(record, "unit_price", <<"0">>))
          qty == ToInt(Get(record, "qty", <<"0">>))
          amount == unit_price * qty
      IN  IF product_id = <<>> \/ product_id \notin DOMAIN catalog
          THEN [emit |-> <<>>, ctr |-> <<>>]
          ELSE [emit |-> << <<product_id,
                               [amount |-> amount, qty |-> qty, transactions |-> 1,
                                product_name |-> catalog[product_id].name,
                                category |-> catalog[product_id].category,
                                subcategory |-> catalog[product_id].subcategory]>> >>,
                ctr |-> <<"products_processed">>]

\* TopProductsJob.mapper_aggregate_by_product, in a task holding catalog
mapper_aggregate_by_product(catalog, line) ==
    IF ~line.tab THEN [emit |-> <<>>, ctr |-> <<>>]
    ELSE IF ~IsCleanLine(line.head) THEN [emit |-> <<>>, ctr |-> <<>>]
    ELSE IF ~line.payload.ok THEN [emit |-> <<>>, ctr |-> <<"parse_errors">>]
    ELSE
      LET record == line.payload.record
          product_id == Strip(Get(record, "product_id", <<>>))
          unit_price == ToFloat(Get(record, "unit_price", <<"0">>))
          qty == ToInt(Get(record, "qty", <<"0">>))
          amount == unit_price * qty
          info == Get(catalog, product_id,
                      [name |-> UnknownProduct(product_id), category |-> S_Unknown,
                       subcategory |-> S_Unknown])
      IN  IF product_id = <<>> THEN [emit |-> <<>>, ctr |-> <<>>]
          ELSE [emit |-> << <<product_id,
                               [amount |-> amount, qty |-> qty, transactions |-> 1,
                                product_name |-> info.name,
                                category |-> info.category,
                                subcategory |-> info.subcategory]>> >>,
                ctr |-> <<"products_processed">>]

NoNames == [product_name |-> <<>>, category |-> <<>>, subcategory |-> <<>>]

\* the names the loop of reducer_sum_by_product holds after the values: it
\* takes those of a value as long as it holds no product name
RECURSIVE Names(_, _)
Names(held, values) ==
    IF values = <<>> THEN held
    ELSE Names(IF held.product_name = <<>>
               THEN [product_name |-> Get(Head(values), "product_name", <<>>),
                     category |-> Get(Head(values), "category", <<>>),
                     subcategory |-> Get(Head(values), "subcategory", <<>>)]
               ELSE held,
               Tail(values))

\* TopProductsJob.reducer_sum_by_product
reducer_sum_by_product(product_id, values, up) ==
    << <<S_TOP,
         [product_id |-> product_id,
          product_name |-> Names(NoNames, values).product_name,
          category |-> Names(NoNames, values).category,
          subcategory |-> Names(NoNames, values).subcategory,
          net_revenue |-> Round2(SumField(values, "amount"), up),
          quantity_sold |-> SumField(values, "qty"),
          transactions |-> SumField(values, "transactions")]>> >>

TopN == 10

\* how many of the sorted products stand before x when x goes in before
\* the products of equal revenue
PlaceBeforeTies(sorted, x) ==
    Cardinality({i \in 1..Len(sorted) : sorted[i].net_revenue > x.net_revenue})

\* how many of the sorted products stand before x: those of a revenue not
\* below x's, all of them earlier than x in the list being sorted
Place(sorted, x) ==
    Cardinality({i \in 1..Len(sorted) : sorted[i].net_revenue >= x.net_revenue})

\* products.sort(key=net_revenue, reverse=True): a stable sort
RECURSIVE SortDesc(_)
SortDesc(products) ==
    IF products = <<>> THEN <<>>
    ELSE LET sorted == SortDesc(SubSeq(products, 1, Len(products) - 1))
             x == products[Len(products)]
             n == Place(sorted, x)
         IN  SubSeq(sorted, 1, n) \o <<x>> \o SubSeq(sorted, n + 1, Len(sorted))

\* f'RANK_{i:02d}'
RankKey(i) == S_RANK \o <<Digits[(i \div 10) + 1], Digits[(i % 10) + 1]>>

\* TopProductsJob.reducer_top_10
reducer_top_10(values) ==
    LET products == SortDesc(values)
        top == Take(products, TopN)
    IN  [i \in 1..Len(top) |->
           <<RankKey(i),
             [rank |-> i,
              product_id |-> top[i].product_id,
              product_name |-> top[i].product_name,
              category |-> top[i].category,
              subcategory |-> top[i].subcategory,
              net_revenue |-> top[i].net_revenue,
              quantity_sold |-> top[i].quantity_sold,
              transactions |-> top[i].transactions]>>]

(***************************************************************************)
(* The catalog file and the input lines of the top-products job, each line *)
(* with what it stands for: whether it is a CLEAN record with a product    *)
(* id, and then that id, its signed amount (thousandths) and its qty.      *)
(***************************************************************************)
P1 == <<"P","1">>

P3 == <<"P","3">>

Widget == <<"W","i","d","g","e","t">>

Tools == <<"T","o","o","l","s">>

CatalogRows ==
    << <<<<"p","r","o","d","u","c","t","_","i","d">>, <<"n","a","m","e">>>>,
       <<<<"#","P","3">>, Widget>>,
       <<>>,
       <<<<>>, Widget>>,
       <<<<" ","P","1"," ">>, <<" ">> \o Widget, Tools>> >>

\* the product ids the catalog file has an entry for
CatalogIds == {P1}

ProductLine(head, product_id, price, qty) ==
    [head |-> head, tab |-> TRUE,
     payload |-> [ok |-> TRUE,
                  record |-> [transaction_id |-> T1, ts |-> TS_OK, country |-> FR,
                              product_id |-> product_id, unit_price |-> price,
                              qty |-> qty, is_return |-> <<"0">>]]]

Product(line, product_id, amount, qty) ==
    [line |-> line, counts |-> TRUE, key |-> product_id, amount |-> amount,
     qty |-> qty, task |-> 0]

NoProduct(line) ==
    [line |-> line, counts |-> FALSE, key |-> <<>>, amount |-> 0, qty |-> 0,
     task |-> 0]

TopPool ==
    { Product(ProductLine(Q_CLEAN, P1, P_OK, Q_OK), P1, 59970, 3),
      Product(ProductLine(Q_CLEAN, P3, <<"9",".","9","9">>, <<"-","2">>), P3, -19980, -2),
      Product(ProductLine(S_CLEAN, <<" ","P","3"," ">>, <<"0",".","0","0","4">>, <<"1">>),
              P3, 4, 1),
      NoProduct(ProductLine(Q_CLEAN, <<>>, P_OK, Q_OK)),
      NoProduct(ProductLine(Q_REJECT, P1, P_OK, Q_OK)) }

MaxTasks == 2

(***************************************************************************)
(* The top-products job as a state machine.  product_catalog holds the     *)
(* catalog of each mapper task started so far; lines go to the latest, and *)
(* a task starts once the one before it has a line.                        *)
(***************************************************************************)
InitTop ==
    /\ schema_version = "v1"
    /\ product_catalog = <<>>
    /\ source = <<>>
    /\ input = <<>>
    /\ emitted = <<>>
    /\ output = NoOutput
    /\ formatted = NoOutput
    /\ final = NoOutput
    /\ counters = ZeroCounters
    /\ pc = "map"

\* a mapper task starts: one call of mapper_init
MapperInit(read) ==
    LET m == mapper_init(CatalogRows, read)
    IN  /\ pc = "map"
        /\ Len(product_catalog) < MaxTasks
        /\ Len(product_catalog) <= Len(input)
        /\ product_catalog' = Append(product_catalog, m.catalog)
        /\ counters' = IF m.failed
                       THEN [counters EXCEPT !["catalog_load_error"] = @ + 1]
                       ELSE [counters EXCEPT !["products_loaded"] = @ + m.loaded]
        /\ UNCHANGED <<schema_version, source, input, emitted, output, formatted,
                       final, pc>>

StartTask == pc = "map" /\ \E read \in 0..Len(CatalogRows) : MapperInit(read)

\* one call of mapper_aggregate_by_product, in the latest task
MapProduct(d) ==
    LET m == mapper_aggregate_by_product(product_catalog[Len(product_catalog)], d.line)
    IN  /\ pc = "map"
        /\ product_catalog # <<>>
        /\ source' = Append(source, [d EXCEPT !.task = Len(product_catalog)])
        /\ input' = Append(input, d.line)
        /\ emitted' = Append(emitted, m.emit)
        /\ counters' = Bump(counters, m.ctr)
        /\ UNCHANGED <<schema_version, product_catalog, output, formatted, final, pc>>

FeedTop ==
    /\ pc = "map" /\ product_catalog # <<>> /\ Len(input) < MaxLines
    /\ \E d \in TopPool : MapProduct(d)

\* one call of reducer_sum_by_product, its values delivered in the order f
ReduceProduct(k, f, up) ==
    /\ pc = "reduce"
    /\ k \notin DOMAIN output
    /\ output' = (k :> reducer_sum_by_product(
                          k, Permute(ValuesOf(Flatten(emitted), k), f), up)) @@ output
    /\ pc' = IF Keys(Flatten(emitted)) = DOMAIN output' THEN "deliver" ELSE "reduce"
    /\ UNCHANGED <<schema_version, product_catalog, source, input, emitted,
                   formatted, final, counters>>

ReduceProducts ==
    /\ pc = "reduce"
    /\ \E k \in Keys(Flatten(emitted)) :
         \E f \in Perms(Len(ValuesOf(Flatten(emitted), k))) :
           \E up \in BOOLEAN : ReduceProduct(k, f, up)

\* the values the first step left under TOP, product after product
RECURSIVE TopValues(_)
TopValues(ks) ==
    IF ks = {} THEN <<>>
    ELSE LET k == CHOOSE x \in ks : TRUE
         IN  ValuesOf(output[k], S_TOP) \o TopValues(ks \ {k})

\* the second step has no mapper: the engine hands the first step's pairs
\* over, the values of TOP in the order f
Deliver(f) ==
    /\ pc = "deliver"
    /\ formatted' = (S_TOP :> Permute(TopValues(DOMAIN output), f))
    /\ pc' = "top"
    /\ UNCHANGED <<schema_version, product_catalog, source, input, emitted, output,
                   final, counters>>

DeliverTop == pc = "deliver" /\ \E f \in Perms(Cardinality(DOMAIN output)) : Deliver(f)

\* the one call of reducer_top_10
Top10 ==
    /\ pc = "top"
    /\ final' = (S_TOP :> reducer_top_10(formatted[S_TOP]))
    /\ pc' = "done"
    /\ UNCHANGED <<schema_version, product_catalog, source, input, emitted, output,
                   formatted, counters>>

NextTop == StartTask \/ FeedTop \/ EndMap \/ ReduceProducts \/ DeliverTop \/ Top10

SpecTop == InitTop /\ [][NextTop]_vars

(***************************************************************************)
(* The second step over many products: the first step yields one total     *)
(* after another, each for a new product, in any order of revenues.        *)
(***************************************************************************)
MaxProducts == 11

Revenues == {30000, 50000}

\* the id of the n-th product
Pid(n) == <<"P", Digits[(n \div 10) + 1], Digits[(n % 10) + 1]>>

Delivered == IF S_TOP \in DOMAIN formatted THEN formatted[S_TOP] ELSE <<>>

\* the reduction of one more product, of one sale of the given amount; its
\* total is the next value delivered to the second step
YieldTotal(amount) ==
    LET product_id == Pid(Len(Delivered) + 1)
        pairs == reducer_sum_by_product(
                     product_id,
                     <<[amount |-> amount, qty |-> 1, transactions |-> 1,
                        product_name |-> UnknownProduct(product_id),
                        category |-> S_Unknown, subcategory |-> S_Unknown]>>,
                     TRUE)
    IN  /\ pc = "reduce"
        /\ formatted' = (S_TOP :> (Delivered \o ValuesOf(pairs, S_TOP)))
        /\ UNCHANGED <<schema_version, product_catalog, source, input, emitted,
                       output, final, counters, pc>>

FeedTotals ==
    /\ pc = "reduce" /\ Len(Delivered) < MaxProducts
    /\ \E amount \in Revenues : YieldTotal(amount)

\* the first step is over
EndPass1 ==
    /\ pc = "reduce"
    /\ pc' = IF Delivered = <<>> THEN "done" ELSE "top"
    /\ UNCHANGED <<schema_version, product_catalog, source, input, emitted, output,
                   formatted, final, counters>>

InitTop10 ==
    /\ schema_version = "v1"
    /\ product_catalog = <<>>
    /\ source = <<>>
    /\ input = <<>>
    /\ emitted = <<>>
    /\ output = NoOutput
    /\ formatted = NoOutput
    /\ final = NoOutput
    /\ counters = ZeroCounters
    /\ pc = "reduce"

NextTop10 == FeedTotals \/ EndPass1 \/ Top10

SpecTop10 == InitTop10 /\ [][NextTop10]_vars

(***************************************************************************)
(* Properties of the top-products job                                      *)
(***************************************************************************)
ProductIds == {source[i].key : i \in {j \in 1..Len(source) : source[j].counts}}

\* the input lines that are CLEAN records of product p
LinesOf(p) == {i \in 1..Len(source) : source[i].counts /\ source[i].key = p}

\* no task that mapped a record of p had p in its catalog
AbsentFromCatalog(p) ==
    \A i \in LinesOf(p) : p \notin DOMAIN product_catalog[source[i].task]

ProductTotal(p) == output[p][1][2]

\* C6: the join is a left outer join.  Every CLEAN record with a product id
\* yields one value under that id, and the total of the id counts each such
\* record once, adds up their qty and (rounded to two decimals) their
\* amounts, whether the catalog has the id or not and whether or not it was
\* loaded; a total whose id the catalog lacks is named
\* "Unknown Product {id}", of category "Unknown".
C6_LeftOuterJoin ==
    /\ \A i \in 1..Len(source) :
         IF source[i].counts
         THEN Len(emitted[i]) = 1 /\ emitted[i][1][1] = source[i].key
         ELSE emitted[i] = <<>>
    /\ \A p \in DOMAIN output :
         /\ p \in ProductIds
         /\ Len(output[p]) = 1
         /\ output[p][1][1] = S_TOP
         /\ ProductTotal(p).product_id = p
         /\ ProductTotal(p).transactions = SrcSum(Len(source), p, "n")
         /\ ProductTotal(p).quantity_sold = SrcSum(Len(source), p, "qty")
         /\ ProductTotal(p).net_revenue % 10 = 0
         /\ 2 * Abs(ProductTotal(p).net_revenue - SrcSum(Len(source), p, "amount")) <= 10
         /\ (p \notin CatalogIds \/ AbsentFromCatalog(p)) =>
              /\ ProductTotal(p).product_name = UnknownProduct(p)
              /\ ProductTotal(p).category = S_Unknown
    /\ pc \in {"deliver", "top", "done"} => DOMAIN output = ProductIds

\* a finished run where a task whose catalog load failed mapped a record of
\* a product of the catalog file, and an unknown product got two records
C6_Witness ==
    /\ pc = "done"
    /\ counters["catalog_load_error"] >= 1
    /\ \E p \in CatalogIds \cap DOMAIN output :
         /\ AbsentFromCatalog(p)
         /\ ProductTotal(p).product_name = UnknownProduct(p)
    /\ \E p \in DOMAIN output \ CatalogIds : ProductTotal(p).transactions = 2

\* the rows the second step emitted
Ranked == IF S_TOP \in DOMAIN final THEN final[S_TOP] ELSE <<>>

\* where in the delivery to reducer_top_10 the product of a row stands
DeliveredAt(row) == CHOOSE i \in 1..Len(Delivered) : Delivered[i].product_id = row.product_id

====
